---- MODULE Spec2Model ----
(***************************************************************************)
(* Model of borsh-rs/borsh/src/de/mod.rs: the BorshDeserialize decoders    *)
(* and the try_from_slice driver.                                          *)
(*                                                                         *)
(* An input (&[u8]) is the sequence of bytes not yet read.  A decoder is   *)
(* an operator from (type, input) to a result record:                      *)
(*   [ok |-> TRUE,  val, rest, cap]            Ok(val), input left at rest *)
(*   [ok |-> FALSE, kind, msg, rest, cap]      Err(kind, msg)              *)
(* cap is the capacity (in elements) the decoder itself reserved up front  *)
(* (vec![0; n], Vec::with_capacity(n)); 0 when it reserved nothing.        *)
(*                                                                         *)
(* Integers wider than 16 bits do not fit the checker's integers: the      *)
(* value of a w-byte integer, w >= 4, is the sequence of its base-65536    *)
(* digits, most significant first (the first digit carries the sign of a   *)
(* signed type).  u32 <<hi, lo>> is hi * 65536 + lo.                       *)
(*                                                                         *)
(* A Vec is the sequence of its elements.  A Vec of 65536 or more elements *)
(* that were decoded without taking input (zero-sized elements) is held    *)
(* as [prefix, elem, len]: len elements in all, the first Len(prefix) of   *)
(* them prefix and every later one elem; its result record carries the     *)
(* extra field repeat.                                                     *)
(***************************************************************************)
EXTENDS Integers, Sequences, FiniteSets, TLC

VARIABLES v, ty, pc, idx, input, prev, res, vals, out

vars == <<v, ty, pc, idx, input, prev, res, vals, out>>

(***************************************************************************)
(* Bounds of the explored inputs.                                          *)
(***************************************************************************)
MaxLen == 3

MaxData == 4

(***************************************************************************)
(* Type descriptors.                                                       *)
(***************************************************************************)
IntTy(w, s) == [k |-> "int", w |-> w, s |-> s]
U8 == [k |-> "u8"]
I8 == IntTy(1, TRUE)
U16 == IntTy(2, FALSE)
I16 == IntTy(2, TRUE)
U32 == IntTy(4, FALSE)
I32 == IntTy(4, TRUE)
U64 == IntTy(8, FALSE)
F32 == [k |-> "float", w |-> 4]
F64 == [k |-> "float", w |-> 8]
BoolTy == [k |-> "bool"]
StringTy == [k |-> "string"]
BoxU8 == [k |-> "box"]
SocketAddr == [k |-> "socketaddr"]
Opt(t) == [k |-> "option", t |-> t]
Vec(t) == [k |-> "vec", t |-> t]
HashSet(t) == [k |-> "hashset", t |-> t]
HashMap(kt, vt) == [k |-> "hashmap", kt |-> kt, vt |-> vt]
BTreeMap(kt, vt) == [k |-> "btreemap", kt |-> kt, vt |-> vt]
Array(t, n) == [k |-> "array", t |-> t, n |-> n]
Tuple(ts) == [k |-> "tuple", ts |-> ts]

(***************************************************************************)
(* Results.                                                                *)
(***************************************************************************)
Ok(val, rest, cap) == [ok |-> TRUE, val |-> val, rest |-> rest, cap |-> cap]

Err(kind, msg, rest, cap) ==
    [ok |-> FALSE, kind |-> kind, msg |-> msg, rest |-> rest, cap |-> cap]

ERROR_NOT_ALL_BYTES_READ == <<"Not all bytes read">>

(***************************************************************************)
(* Byte source: crate::Input for &[u8].                                    *)
(***************************************************************************)
RemLen(in) == Len(in)

Read(in, n) ==
    IF n > Len(in)
    THEN Err("UnexpectedEof", <<"Unexpected length of input">>, in, 0)
    ELSE [ok |-> TRUE, data |-> SubSeq(in, 1, n),
          rest |-> SubSeq(in, n + 1, Len(in))]

ReadByte(in) ==
    LET r == Read(in, 1)
    IN  IF r.ok THEN Ok(r.data[1], r.rest, 0) ELSE r

(***************************************************************************)
(* Integer and float conversions.                                          *)
(***************************************************************************)
Digit16(data, i) == data[2 * i - 1] + 256 * data[2 * i]

FromLeBytes(data, signed) ==
    LET w == Len(data)
        n == w \div 2
        top == IF w = 1 THEN data[1] ELSE Digit16(data, n)
        half == IF w = 1 THEN 128 ELSE 32768
        stop == IF signed /\ top >= half THEN top - 2 * half ELSE top
    IN  IF w <= 2 THEN stop
        ELSE [i \in 1..n |-> IF i = 1 THEN stop ELSE Digit16(data, n + 1 - i)]

(* IsNan that recognises only quiet NaNs (top mantissa bit set) *)
IsNanQuietOnly(bits) ==
    IF Len(bits) = 2
    THEN /\ (bits[1] \div 128) % 256 = 255
         /\ (bits[1] \div 64) % 2 = 1
    ELSE /\ (bits[1] \div 16) % 2048 = 2047
         /\ (bits[1] \div 8) % 2 = 1

IsNan(bits) ==
    IF Len(bits) = 2
    THEN /\ (bits[1] \div 128) % 256 = 255
         /\ (bits[1] % 128 # 0 \/ bits[2] # 0)
    ELSE /\ (bits[1] \div 16) % 2048 = 2047
         /\ (bits[1] % 16 # 0 \/ bits[2] # 0 \/ bits[3] # 0 \/ bits[4] # 0)

FromBits(bits) == [bits |-> bits]

(* u32 as usize <<hi, lo>>, compared with and clamped by a count n *)
UsizeGt(len, n) ==
    \/ len[1] > n \div 65536
    \/ (len[1] = n \div 65536 /\ len[2] > n % 65536)

UsizeMin(n, len) == IF UsizeGt(len, n) THEN n ELSE len[1] * 65536 + len[2]

CheckedDivOr0(a, b) == IF b = 0 THEN 0 ELSE a \div b

(***************************************************************************)
(* std::mem::size_of on a 64-bit target: size, alignment and the number of *)
(* spare bit patterns (niches) an enclosing Option can use for None.  A     *)
(* bool has 254, the 16-bit tag of SocketAddr 65534, and the capacity word *)
(* of String and Vec 2^63, held here at the largest integer of the model.  *)
(***************************************************************************)
SizeOfString == 24

RECURSIVE SeqSum(_)
SeqSum(q) == IF q = <<>> THEN 0 ELSE Head(q) + SeqSum(Tail(q))

RECURSIVE SeqMax(_)
SeqMax(q) ==
    IF q = <<>> THEN 0
    ELSE IF Head(q) > SeqMax(Tail(q)) THEN Head(q) ELSE SeqMax(Tail(q))

RECURSIVE Align(_)
Align(t) ==
    CASE t.k \in {"u8", "bool"} -> 1
      [] t.k \in {"int", "float"} -> t.w
      [] t.k \in {"string", "vec", "box", "btreemap", "hashmap", "hashset"} -> 8
      [] t.k = "socketaddr" -> 4
      [] t.k \in {"array", "option"} -> Align(t.t)
      [] t.k = "tuple" -> SeqMax(<<1>> \o [i \in 1..Len(t.ts) |-> Align(t.ts[i])])

(* the spare patterns of an Option tag, which is as wide as the payload's  *)
(* alignment a and holds 0 or 1: 256^a - 2, held at the largest integer of *)
(* the model from 4 bytes on                                               *)
TagNiches(a) == IF a = 1 THEN 254 ELSE IF a = 2 THEN 65534 ELSE 2147483647

(* the niches left once an Option has taken one of the payload's n; with   *)
(* none to take it adds a tag of the payload's alignment a                 *)
OptionNiches(n, a) == IF n > 0 THEN n - 1 ELSE TagNiches(a)

RECURSIVE Niches(_)
Niches(t) ==
    CASE t.k \in {"u8", "int", "float", "btreemap"} -> 0
      [] t.k \in {"box", "hashmap", "hashset"} -> 1
      [] t.k = "bool" -> 254
      [] t.k = "socketaddr" -> 65534
      [] t.k \in {"string", "vec"} -> 2147483647
      [] t.k = "array" -> IF t.n = 0 THEN 0 ELSE Niches(t.t)
      [] t.k = "option" -> OptionNiches(Niches(t.t), Align(t.t))
      [] t.k = "tuple" -> SeqMax([i \in 1..Len(t.ts) |-> Niches(t.ts[i])])

RECURSIVE SizeOf(_)
SizeOf(t) ==
    CASE t.k = "u8" -> 1
      [] t.k = "int" -> t.w
      [] t.k = "float" -> t.w
      [] t.k = "bool" -> 1
      [] t.k = "string" -> SizeOfString
      [] t.k = "vec" -> 24
      [] t.k = "box" -> 16
      [] t.k = "socketaddr" -> 32
      [] t.k = "btreemap" -> 24
      [] t.k = "hashmap" -> 48
      [] t.k = "hashset" -> 48
      [] t.k = "array" -> t.n * SizeOf(t.t)
      [] t.k = "option" ->
            IF Niches(t.t) > 0 THEN SizeOf(t.t) ELSE SizeOf(t.t) + Align(t.t)
      [] t.k = "tuple" ->
            LET sum == SeqSum([i \in 1..Len(t.ts) |-> SizeOf(t.ts[i])])
                a == Align(t)
            IN  ((sum + a - 1) \div a) * a

(***************************************************************************)
(* String::from_utf8: is the byte sequence well-formed UTF-8?              *)
(***************************************************************************)
IsCont(b) == b \in 128..191

(* core::str::utf8_char_width: the length a first byte announces, 0 for a  *)
(* byte that cannot start a sequence                                       *)
Utf8CharWidth(b) ==
    IF b < 128 THEN 1
    ELSE IF b \in 194..223 THEN 2
    ELSE IF b \in 224..239 THEN 3
    ELSE IF b \in 240..244 THEN 4
    ELSE 0

(* Utf8Error { valid_up_to, error_len }; error_len 0 stands for None *)
Utf8Error(valid_up_to, error_len) ==
    [ok |-> FALSE, valid_up_to |-> valid_up_to, error_len |-> error_len]

(* the second byte of a sequence of width w that starts with first *)
Utf8Second(w, first, b) ==
    IF w = 3
    THEN IF first = 224 THEN b \in 160..191
         ELSE IF first = 237 THEN b \in 128..159
         ELSE IsCont(b)
    ELSE IF w = 4
    THEN IF first = 240 THEN b \in 144..191
         ELSE IF first = 244 THEN b \in 128..143
         ELSE IsCont(b)
    ELSE IsCont(b)

(* core::str::run_utf8_validation from byte offset index (0-based) *)
RECURSIVE RunUtf8Validation(_, _)
RunUtf8Validation(bytes, index) ==
    IF index >= Len(bytes)
    THEN [ok |-> TRUE, valid_up_to |-> Len(bytes), error_len |-> 0]
    ELSE LET w == Utf8CharWidth(bytes[index + 1])
         IN  IF w = 1 THEN RunUtf8Validation(bytes, index + 1)
             ELSE IF w = 0 THEN Utf8Error(index, 1)
             ELSE IF index + 1 >= Len(bytes) THEN Utf8Error(index, 0)
             ELSE IF ~Utf8Second(w, bytes[index + 1], bytes[index + 2])
             THEN Utf8Error(index, 1)
             ELSE IF w = 2 THEN RunUtf8Validation(bytes, index + 2)
             ELSE IF index + 2 >= Len(bytes) THEN Utf8Error(index, 0)
             ELSE IF ~IsCont(bytes[index + 3]) THEN Utf8Error(index, 2)
             ELSE IF w = 3 THEN RunUtf8Validation(bytes, index + 3)
             ELSE IF index + 3 >= Len(bytes) THEN Utf8Error(index, 0)
             ELSE IF ~IsCont(bytes[index + 4]) THEN Utf8Error(index, 3)
             ELSE RunUtf8Validation(bytes, index + 4)

(* String::from_utf8 *)
FromUtf8(bytes) == RunUtf8Validation(bytes, 0)

IsUtf8(s) == FromUtf8(s).ok

(* err.to_string() of a FromUtf8Error *)
ErrToString(err) ==
    IF err.error_len > 0
    THEN <<"invalid utf-8 sequence of ", err.error_len,
           " bytes from index ", err.valid_up_to>>
    ELSE <<"incomplete utf-8 byte sequence from index ", err.valid_up_to>>

(***************************************************************************)
(* The decoders.                                                           *)
(***************************************************************************)
DeserializeU8(in) ==
    LET r == Read(in, 1)
    IN  IF r.ok THEN Ok(r.data[1], r.rest, 0) ELSE r

(* DeserializeInt reading an 8-byte buffer whatever the type's width *)
DeserializeIntWideRead(t, in) ==
    LET r == Read(in, 8)
    IN  IF r.ok THEN Ok(FromLeBytes(SubSeq(r.data, 1, t.w), t.s), r.rest, 0) ELSE r

DeserializeInt(t, in) ==
    LET r == Read(in, t.w)
    IN  IF r.ok THEN Ok(FromLeBytes(r.data, t.s), r.rest, 0) ELSE r

DeserializeFloat(t, in) ==
    LET r == Read(in, t.w)
    IN  IF ~r.ok THEN r
        ELSE LET f == FromBits(FromLeBytes(r.data, FALSE))
             IN  IF IsNan(f.bits)
                 THEN Err("InvalidInput",
                          <<"For portability reasons we do not allow to deserialize NaNs.">>,
                          r.rest, 0)
                 ELSE Ok(f, r.rest, 0)

DeserializeBool(in) ==
    LET r == ReadByte(in)
    IN  IF r.ok THEN Ok(r.val = 1, r.rest, 0) ELSE r

(* String::from_utf8(result).map_err(|err| Error::new(InvalidData, err.to_string())) *)
Utf8Result(u, r, capacity) ==
    IF u.ok THEN Ok(r.data, r.rest, capacity)
    ELSE Err("InvalidData", ErrToString(u), r.rest, capacity)

DeserializeString(in) ==
    LET l == DeserializeInt(U32, in)
    IN  IF ~l.ok THEN l
        ELSE LET len == l.val
                 capacity == UsizeMin(CheckedDivOr0(RemLen(l.rest), SizeOfString), len)
                 r == Read(l.rest, capacity)
             IN  IF ~r.ok THEN [r EXCEPT !.cap = capacity]
                 ELSE Utf8Result(FromUtf8(r.data), r, capacity)

(* DeserializeBox without the check of len against the remaining input *)
DeserializeBoxUnguarded(in) ==
    LET l == DeserializeInt(U32, in)
    IN  IF ~l.ok THEN l
        ELSE LET len == l.val
                 n == IF len[1] > 0 THEN 65536 ELSE len[2]
                 r == Read(l.rest, n)
             IN  IF r.ok THEN Ok(r.data, r.rest, n) ELSE [r EXCEPT !.cap = n]

DeserializeBox(in) ==
    LET l == DeserializeInt(U32, in)
    IN  IF ~l.ok THEN l
        ELSE LET len == l.val
             IN  IF UsizeGt(len, RemLen(l.rest))
                 THEN Err("InvalidInput",
                          <<"Cannot allocate more bytes then we have in remaining input">>,
                          l.rest, 0)
                 ELSE LET n == len[1] * 65536 + len[2]
                          r == Read(l.rest, n)
                      IN  IF r.ok THEN Ok(r.data, r.rest, n)
                          ELSE [r EXCEPT !.cap = n]

DeserializeIpv4Addr(in) ==
    LET r == Read(in, 4)
    IN  IF r.ok THEN Ok(r.data, r.rest, 0) ELSE r

DeserializeIpv6Addr(in) ==
    LET r == Read(in, 16)
    IN  IF r.ok
        THEN Ok([i \in 1..8 |-> 256 * r.data[2 * i - 1] + r.data[2 * i]], r.rest, 0)
        ELSE r

DeserializeSocketAddrV4(in) ==
    LET ip == DeserializeIpv4Addr(in)
    IN  IF ~ip.ok THEN ip
        ELSE LET port == DeserializeInt(U16, ip.rest)
             IN  IF ~port.ok THEN port
                 ELSE Ok([ip |-> ip.val, port |-> port.val], port.rest, 0)

DeserializeSocketAddrV6(in) ==
    LET ip == DeserializeIpv6Addr(in)
    IN  IF ~ip.ok THEN ip
        ELSE LET port == DeserializeInt(U16, ip.rest)
             IN  IF ~port.ok THEN port
                 ELSE Ok([ip |-> ip.val, port |-> port.val,
                          flowinfo |-> 0, scope_id |-> 0], port.rest, 0)

(* DeserializeSocketAddr taking every nonzero discriminant as IPv6 *)
DeserializeSocketAddrNoDefault(in) ==
    LET kind == DeserializeU8(in)
    IN  IF ~kind.ok THEN kind
        ELSE IF kind.val = 0
        THEN LET a == DeserializeSocketAddrV4(kind.rest)
             IN  IF a.ok THEN Ok([V4 |-> a.val], a.rest, 0) ELSE a
        ELSE LET a == DeserializeSocketAddrV6(kind.rest)
             IN  IF a.ok THEN Ok([V6 |-> a.val], a.rest, 0) ELSE a

DeserializeSocketAddr(in) ==
    LET kind == DeserializeU8(in)
    IN  IF ~kind.ok THEN kind
        ELSE IF kind.val = 0
        THEN LET a == DeserializeSocketAddrV4(kind.rest)
             IN  IF a.ok THEN Ok([V4 |-> a.val], a.rest, 0) ELSE a
        ELSE IF kind.val = 1
        THEN LET a == DeserializeSocketAddrV6(kind.rest)
             IN  IF a.ok THEN Ok([V6 |-> a.val], a.rest, 0) ELSE a
        ELSE Err("InvalidInput", <<"Invalid SocketAddr variant: ", kind.val>>,
                 kind.rest, 0)

(* MapInsert that keeps the value already present for the key *)
MapInsertKeepFirst(m, key, value) ==
    [x \in (DOMAIN m) \cup {key} |-> IF x \in DOMAIN m THEN m[x] ELSE value]

MapInsert(m, key, value) ==
    [x \in (DOMAIN m) \cup {key} |-> IF x = key THEN value ELSE m[x]]

RECURSIVE Deserialize(_, _)
RECURSIVE VecLoop(_, _, _, _, _, _)
RECURSIVE MapLoop(_, _, _, _, _)
RECURSIVE ArrayLoop(_, _, _, _)
RECURSIVE TupleLoop(_, _, _, _)

(* DeserializeOption taking only flag 1 as present *)
DeserializeOptionStrictFlag(t, in) ==
    LET flag == Read(in, 1)
    IN  IF ~flag.ok THEN flag
        ELSE IF flag.data[1] # 1 THEN Ok([some |-> FALSE], flag.rest, 0)
        ELSE LET x == Deserialize(t.t, flag.rest)
             IN  IF x.ok THEN Ok([some |-> TRUE, val |-> x.val], x.rest, 0)
                 ELSE [x EXCEPT !.cap = 0]

DeserializeOption(t, in) ==
    LET flag == Read(in, 1)
    IN  IF ~flag.ok THEN flag
        ELSE IF flag.data[1] = 0 THEN Ok([some |-> FALSE], flag.rest, 0)
        ELSE LET x == Deserialize(t.t, flag.rest)
             IN  IF x.ok THEN Ok([some |-> TRUE, val |-> x.val], x.rest, 0)
                 ELSE [x EXCEPT !.cap = 0]

(* for _ in 0..len { result.push(T::deserialize(input)?) }                 *)
(* An element decoded without taking input is decoded again, to the same   *)
(* value, by every later iteration: the loop ends with len - i copies.     *)
VecLoopPush(t, len, i, in, result, capacity, x) ==
    IF ~x.ok THEN [x EXCEPT !.cap = capacity]
    ELSE IF x.rest # in
    THEN VecLoop(t, len, i + 1, x.rest, Append(result, x.val), capacity)
    ELSE IF len[1] = 0
    THEN Ok(result \o [j \in 1..(len[2] - i) |-> x.val], in, capacity)
    ELSE [ok |-> TRUE,
          val |-> [prefix |-> result, elem |-> x.val, len |-> len],
          rest |-> in, cap |-> capacity, repeat |-> TRUE]

VecLoop(t, len, i, in, result, capacity) ==
    IF ~UsizeGt(len, i) THEN Ok(result, in, capacity)
    ELSE VecLoopPush(t, len, i, in, result, capacity, Deserialize(t, in))

(* DeserializeVec clamping the capacity by the remaining bytes, not elements *)
DeserializeVecByteClamp(t, in) ==
    LET l == DeserializeInt(U32, in)
    IN  IF ~l.ok THEN l
        ELSE LET len == l.val
                 capacity == UsizeMin(RemLen(l.rest), len)
             IN  VecLoop(t.t, len, 0, l.rest, <<>>, capacity)

DeserializeVec(t, in) ==
    LET l == DeserializeInt(U32, in)
    IN  IF ~l.ok THEN l
        ELSE LET len == l.val
                 capacity == UsizeMin(CheckedDivOr0(RemLen(l.rest), SizeOf(t.t)), len)
             IN  VecLoop(t.t, len, 0, l.rest, <<>>, capacity)

(* vec.into_iter().collect::<HashSet<T>>() *)
Collect(vec) ==
    IF ~vec.ok THEN vec
    ELSE IF "repeat" \in DOMAIN vec
    THEN Ok({vec.val.prefix[i] : i \in 1..Len(vec.val.prefix)} \cup {vec.val.elem},
            vec.rest, vec.cap)
    ELSE Ok({vec.val[i] : i \in 1..Len(vec.val)}, vec.rest, vec.cap)

(* let vec = <Vec<T>>::deserialize(input)?; vec.into_iter().collect() *)
DeserializeHashSet(t, in) == Collect(DeserializeVec(Vec(t.t), in))

(* for _ in 0..len { key; value; result.insert(key, value) }               *)
(* A pair decoded without taking input is decoded and inserted again by    *)
(* every later iteration, which leaves the map as the first insert did.    *)
MapLoopInsert(t, len, i, in, result, key, value) ==
    IF ~value.ok THEN [value EXCEPT !.cap = 0]
    ELSE IF value.rest = in
    THEN Ok(MapInsert(result, key.val, value.val), in, 0)
    ELSE MapLoop(t, len, i + 1, value.rest, MapInsert(result, key.val, value.val))

MapLoopValue(t, len, i, in, result, key) ==
    IF ~key.ok THEN [key EXCEPT !.cap = 0]
    ELSE MapLoopInsert(t, len, i, in, result, key, Deserialize(t.vt, key.rest))

MapLoop(t, len, i, in, result) ==
    IF ~UsizeGt(len, i) THEN Ok(result, in, 0)
    ELSE MapLoopValue(t, len, i, in, result, Deserialize(t.kt, in))

DeserializeHashMap(t, in) ==
    LET l == DeserializeInt(U32, in)
    IN  IF ~l.ok THEN l ELSE MapLoop(t, l.val, 0, l.rest, <<>>)

DeserializeBTreeMap(t, in) ==
    LET l == DeserializeInt(U32, in)
    IN  IF ~l.ok THEN l ELSE MapLoop(t, l.val, 0, l.rest, <<>>)

(* for i in 0..$len { result[i] = T::deserialize(input)? } *)
ArrayLoop(t, i, in, result) ==
    IF i >= t.n THEN Ok(result, in, 0)
    ELSE LET x == Deserialize(t.t, in)
         IN  IF x.ok THEN ArrayLoop(t, i + 1, x.rest, Append(result, x.val))
             ELSE [x EXCEPT !.cap = 0]

DeserializeArray(t, in) == ArrayLoop(t, 0, in, <<>>)

(* Ok(($($name::deserialize(input)?,)+)) *)
TupleLoop(ts, i, in, result) ==
    IF i > Len(ts) THEN Ok(result, in, 0)
    ELSE LET x == Deserialize(ts[i], in)
         IN  IF x.ok THEN TupleLoop(ts, i + 1, x.rest, Append(result, x.val))
             ELSE [x EXCEPT !.cap = 0]

DeserializeTuple(t, in) == TupleLoop(t.ts, 1, in, <<>>)

Deserialize(t, in) ==
    CASE t.k = "u8" -> DeserializeU8(in)
      [] t.k = "int" -> DeserializeInt(t, in)
      [] t.k = "float" -> DeserializeFloat(t, in)
      [] t.k = "bool" -> DeserializeBool(in)
      [] t.k = "option" -> DeserializeOption(t, in)
      [] t.k = "string" -> DeserializeString(in)
      [] t.k = "vec" -> DeserializeVec(t, in)
      [] t.k = "hashset" -> DeserializeHashSet(t, in)
      [] t.k = "hashmap" -> DeserializeHashMap(t, in)
      [] t.k = "btreemap" -> DeserializeBTreeMap(t, in)
      [] t.k = "socketaddr" -> DeserializeSocketAddr(in)
      [] t.k = "box" -> DeserializeBox(in)
      [] t.k = "array" -> DeserializeArray(t, in)
      [] t.k = "tuple" -> DeserializeTuple(t, in)

(***************************************************************************)
(* The wire layout (the encoding direction, which this file does not       *)
(* contain): the bytes a value of each type occupies.                      *)
(***************************************************************************)
ToLeBytes(val, w) ==
    IF w = 1 THEN <<val % 256>>
    ELSE IF w = 2 THEN <<val % 256, (val \div 256) % 256>>
    ELSE [i \in 1..w |->
            LET d == val[(w \div 2) + 1 - ((i + 1) \div 2)]
            IN  IF i % 2 = 1 THEN d % 256 ELSE (d \div 256) % 256]

LenField(n) == <<n % 256, (n \div 256) % 256, 0, 0>>

RECURSIVE Flatten(_)
Flatten(ss) == IF ss = <<>> THEN <<>> ELSE Head(ss) \o Flatten(Tail(ss))

MinOf(S) == CHOOSE x \in S : \A y \in S : x <= y

RECURSIVE SortedKeys(_)
SortedKeys(S) ==
    IF S = {} THEN <<>>
    ELSE IF Cardinality(S) = 1 THEN <<CHOOSE x \in S : TRUE>>
    ELSE <<MinOf(S)>> \o SortedKeys(S \ {MinOf(S)})

RECURSIVE Encode(_, _)
Encode(t, val) ==
    CASE t.k = "u8" -> <<val>>
      [] t.k = "int" -> ToLeBytes(val, t.w)
      [] t.k = "float" -> ToLeBytes(val.bits, t.w)
      [] t.k = "bool" -> IF val THEN <<1>> ELSE <<0>>
      [] t.k = "option" ->
            IF val.some THEN <<1>> \o Encode(t.t, val.val) ELSE <<0>>
      [] t.k = "string" -> LenField(Len(val)) \o val
      [] t.k = "box" -> LenField(Len(val)) \o val
      [] t.k = "vec" ->
            LenField(Len(val))
                \o Flatten([i \in 1..Len(val) |-> Encode(t.t, val[i])])
      [] t.k = "hashset" ->
            LET keys == SortedKeys(val)
            IN  LenField(Len(keys))
                    \o Flatten([i \in 1..Len(keys) |-> Encode(t.t, keys[i])])
      [] t.k \in {"hashmap", "btreemap"} ->
            LET keys == SortedKeys(DOMAIN val)
            IN  LenField(Len(keys))
                    \o Flatten([i \in 1..Len(keys) |->
                                  Encode(t.kt, keys[i]) \o Encode(t.vt, val[keys[i]])])
      [] t.k = "array" -> Flatten([i \in 1..t.n |-> Encode(t.t, val[i])])
      [] t.k = "tuple" -> Flatten([i \in 1..Len(t.ts) |-> Encode(t.ts[i], val[i])])
      [] t.k = "socketaddr" ->
            IF "V4" \in DOMAIN val
            THEN <<0>> \o val.V4.ip \o ToLeBytes(val.V4.port, 2)
            ELSE <<1>>
                    \o Flatten([i \in 1..8 |->
                                  <<val.V6.ip[i] \div 256, val.V6.ip[i] % 256>>])
                    \o ToLeBytes(val.V6.port, 2)

(***************************************************************************)
(* The explored values of each type.                                       *)
(***************************************************************************)
Seqs(S, lo, hi) == UNION {[1..n -> S] : n \in lo..hi}

Pattern(base, step, n) == [i \in 1..n |-> (base + (i - 1) * step) % 256]

RECURSIVE Values(_)
RECURSIVE TupleValues(_, _)
TupleValues(ts, i) ==
    IF i > Len(ts) THEN {<<>>}
    ELSE {<<x>> \o rest : x \in Values(ts[i]), rest \in TupleValues(ts, i + 1)}

Values(t) ==
    CASE t.k = "u8" -> {0, 42, 255}
      [] t.k = "int" ->
            IF t.w = 1 THEN {-128, -1, 127}
            ELSE IF t.w = 2
            THEN (IF t.s THEN {-32768, -2, 513} ELSE {0, 258, 65535})
            ELSE IF t.w = 4
            THEN (IF t.s THEN {<<-32768, 0>>, <<-1, 65535>>, <<0, 7>>}
                  ELSE {<<0, 0>>, <<1, 2>>, <<65535, 65535>>})
            ELSE {<<0, 0, 0, 0>>, <<1, 2, 3, 4>>, <<65535, 65535, 65535, 65535>>}
      [] t.k = "float" ->
            IF t.w = 4
            THEN {[bits |-> b] : b \in {<<0, 0>>, <<16256, 0>>, <<32640, 0>>,
                                        <<65408, 0>>, <<32768, 0>>}}
            ELSE {[bits |-> b] : b \in {<<0, 0, 0, 0>>, <<16368, 0, 0, 0>>,
                                        <<32752, 0, 0, 0>>, <<65520, 0, 0, 0>>}}
      [] t.k = "bool" -> {TRUE, FALSE}
      [] t.k = "option" ->
            {[some |-> FALSE]} \cup {[some |-> TRUE, val |-> x] : x \in Values(t.t)}
      [] t.k = "string" -> {<<>>, <<65>>, <<65, 66, 67>>, <<195, 169>>}
      [] t.k = "box" -> Seqs({0, 255}, 0, 2)
      [] t.k = "vec" -> Seqs(Values(t.t), 0, 2)
      [] t.k = "hashset" -> SUBSET Values(t.t)
      [] t.k \in {"hashmap", "btreemap"} ->
            UNION {[S -> Values(t.vt)] : S \in SUBSET Values(t.kt)}
      [] t.k = "array" -> [1..t.n -> Values(t.t)]
      [] t.k = "tuple" -> TupleValues(t.ts, 1)
      [] t.k = "socketaddr" ->
            {[V4 |-> [ip |-> ip, port |-> port]] :
                ip \in {<<127, 0, 0, 1>>, <<192, 168, 1, 255>>},
                port \in {0, 8080, 65535}}
            \cup
            {[V6 |-> [ip |-> ip, port |-> port, flowinfo |-> 0, scope_id |-> 0]] :
                ip \in {<<0, 0, 0, 0, 0, 0, 0, 1>>,
                        <<8193, 3512, 0, 0, 0, 65280, 66, 33577>>},
                port \in {0, 8080, 65535}}

(***************************************************************************)
(* The explored calls try_from_slice::<ty>(v): the encodings of the values *)
(* above, alone and followed by one extra byte, and malformed buffers.     *)
(***************************************************************************)
LenFields ==
    {LenField(n) : n \in 0..MaxLen}
        \cup {<<255, 255, 255, 255>>, <<0, 0, 1, 0>>, <<0, 1, 0, 0>>}

ShortLenFields == Seqs({0, 1}, 0, 3)

LenPrefixed(A) ==
    {l \o d : l \in LenFields, d \in Seqs(A, 0, MaxData)} \cup ShortLenFields

Pads == {0, 23, 24, 47, 48, 24 * MaxLen, 24 * (MaxLen + 1)}

StringBufs ==
    {l \o d \o Pattern(0, 0, p) :
        l \in LenFields, d \in Seqs({65, 195, 169, 255}, 0, MaxLen), p \in Pads}
        \cup ShortLenFields

BoxItems ==
    {LenField(m) \o d : m \in 0..2, d \in Seqs({7, 9}, 0, 2)} \cup {<<>>, <<1, 0>>}

FloatItems ==
    {<<0, 0, 128, 63>>, <<0, 0, 192, 127>>, <<1, 0, 128, 255>>,
     <<0, 0, 128, 127>>, <<>>, <<0, 0, 192>>}

StringItems ==
    {LenField(m) \o d : m \in 0..3, d \in Seqs({65, 255}, 0, 2) \cup {<<195>>}}
        \cup {<<>>, <<1, 0>>}

ItemBufs(items, pads) ==
    {LenField(n) \o a \o b \o Pattern(0, 0, p) :
        n \in 0..MaxLen, a \in items, b \in items, p \in pads}

F32Bufs ==
    Seqs({0, 1, 127, 128, 192, 255}, 4, 4) \cup Seqs({0, 255}, 3, 3)
        \cup Seqs({0, 127, 128, 255}, 5, 5)

F64Bufs ==
    {<<c, c, c, c, c, c, b7, b8>> \o e :
        c \in {0, 1}, b7 \in {0, 15, 16, 239, 240, 241, 255},
        b8 \in {0, 126, 127, 128, 255}, e \in {<<>>, <<0>>}}
        \cup {Pattern(b, 0, 7) : b \in {0, 255}}

SocketAddrBufs ==
    {<<d>> \o Pattern(b, s, n) :
        d \in {0, 1, 2, 3, 255}, b \in {1, 200}, s \in {0, 1, 7},
        n \in {0, 3, 5, 6, 7, 15, 17, 18, 19}} \cup {<<>>}

RawBufs(t) ==
    CASE t.k \in {"u8", "bool"} -> Seqs({0, 1, 2, 42, 128, 255}, 0, 2)
      [] t.k = "int" ->
            IF t.w = 1 THEN Seqs({0, 1, 2, 42, 128, 255}, 0, 2)
            ELSE IF t.w = 2 THEN Seqs({0, 1, 128, 255}, 0, 3)
            ELSE IF t.w = 4 THEN Seqs({0, 128, 255}, 3, 5)
            ELSE {Pattern(b, s, n) : b \in {0, 127, 255}, s \in {0, 1}, n \in {7, 8, 9}}
      [] t.k = "float" -> IF t.w = 4 THEN F32Bufs ELSE F64Bufs
      [] t.k = "option" ->
            IF t.t.k = "float"
            THEN {<<f>> \o x : f \in {0, 1, 2}, x \in FloatItems}
            ELSE IF t.t.k = "box"
            THEN {<<f>> \o x : f \in {0, 1, 255}, x \in BoxItems}
            ELSE Seqs({0, 1, 2, 42, 255}, 0, 3)
      [] t.k = "string" -> StringBufs
      [] t.k = "box" -> LenPrefixed({0, 1, 255})
      [] t.k = "vec" ->
            IF t.t.k = "box" THEN ItemBufs(BoxItems, {0})
            ELSE IF t.t.k = "string" THEN ItemBufs(StringItems, {0, 48})
            ELSE IF t.t.k = "float" THEN ItemBufs(FloatItems, {0}) \cup LenFields
            ELSE IF t.t.k = "array"
            THEN {l \o d : l \in LenFields, d \in Seqs({7}, 0, 2)}
            ELSE LenPrefixed({0, 1, 255})
      [] t.k = "hashset" -> LenPrefixed({0, 1, 255})
      [] t.k \in {"hashmap", "btreemap"} ->
            IF t.vt.k = "float"
            THEN {l \o <<k1>> \o a \o <<k2>> \o b :
                    l \in LenFields, k1 \in {1, 2}, k2 \in {1, 2},
                    a \in FloatItems, b \in FloatItems}
            ELSE IF t.vt.k = "array"
            THEN {l \o d : l \in LenFields, d \in Seqs({7}, 0, 1)}
                    \cup ShortLenFields
            ELSE {l \o d : l \in LenFields,
                           d \in Seqs({1, 2}, 0, (1 + SizeOf(t.vt)) * MaxLen)}
                    \cup ShortLenFields
      [] t.k = "socketaddr" -> SocketAddrBufs
      [] t.k = "array" -> Seqs({0, 1, 255}, 0, 5)
      [] t.k = "tuple" ->
            IF t.ts[1].k = "string"
            THEN {l \o d : l \in {LenField(n) : n \in 0..2},
                           d \in Seqs({0, 65}, 0, 6)}
            ELSE Seqs({0, 1, 2, 255}, 0, 4)

Types ==
    {U8, I8, U16, I16, U32, I32, U64, F32, F64, BoolTy,
     Opt(U8), Opt(U16), Opt(F32), Opt(BoxU8),
     StringTy, BoxU8, SocketAddr,
     Vec(U8), Vec(U16), Vec(Array(U8, 0)), Vec(BoxU8), Vec(StringTy), Vec(F32),
     Vec(Opt(U16)),
     HashSet(U8),
     HashMap(U8, U8), BTreeMap(U8, U16), HashMap(U8, F32), BTreeMap(U8, U8),
     HashMap(Array(U8, 0), Array(U8, 0)), BTreeMap(Array(U8, 0), Array(U8, 0)),
     Array(U8, 0), Array(U8, 2), Array(U16, 2),
     Tuple(<<U8, U16>>), Tuple(<<StringTy, Vec(U8)>>),
     Tuple(<<U8, Opt(U8), BoolTy>>), Tuple(<<BoxU8, F32>>)}

Extras == {<<>>, <<0>>, <<1>>, <<255>>}

EncodedBufs(t) == {Encode(t, x) \o e : x \in Values(t), e \in Extras}

Bufs(t) == {<<>>} \cup EncodedBufs(t) \cup RawBufs(t)

(***************************************************************************)
(* try_from_slice as a state machine.  A tuple type is decoded one         *)
(* component per step, left to right; any other type in one step.          *)
(***************************************************************************)
Components(t) == IF t.k = "tuple" THEN t.ts ELSE <<t>>

NoResult == Err("None", <<>>, <<>>, 0)

Init ==
    /\ ty \in Types
    /\ v \in Bufs(ty)
    /\ pc = "call"
    /\ idx = 1
    /\ input = <<>>
    /\ prev = <<>>
    /\ res = NoResult
    /\ vals = <<>>
    /\ out = NoResult

(* let mut input = vec![0; v.len()]; input.copy_from_slice(v); &input[..] *)
TryFromSliceBegin ==
    /\ pc = "call"
    /\ input' = [i \in 1..Len(v) |-> v[i]]
    /\ pc' = "deserialize"
    /\ UNCHANGED <<v, ty, idx, prev, res, vals, out>>

(* one T::deserialize(input)? of the requested type *)
Step(kind, r) ==
    /\ pc = "deserialize"
    /\ idx <= Len(Components(ty))
    /\ Components(ty)[idx].k = kind
    /\ prev' = input
    /\ res' = r
    /\ input' = r.rest
    /\ IF r.ok
       THEN /\ vals' = Append(vals, r.val)
            /\ idx' = idx + 1
            /\ UNCHANGED <<pc, out>>
       ELSE /\ out' = Err(r.kind, r.msg, r.rest, 0)
            /\ pc' = "done"
            /\ UNCHANGED <<vals, idx>>
    /\ UNCHANGED <<v, ty>>

Cur == Components(ty)[idx]

StepU8 == Step("u8", DeserializeU8(input))

StepInt == Step("int", DeserializeInt(Cur, input))

StepFloat == Step("float", DeserializeFloat(Cur, input))

StepBool == Step("bool", DeserializeBool(input))

StepOption == Step("option", DeserializeOption(Cur, input))

StepString == Step("string", DeserializeString(input))

StepVec == Step("vec", DeserializeVec(Cur, input))

StepHashSet == Step("hashset", DeserializeHashSet(Cur, input))

StepHashMap == Step("hashmap", DeserializeHashMap(Cur, input))

StepBTreeMap == Step("btreemap", DeserializeBTreeMap(Cur, input))

StepSocketAddr == Step("socketaddr", DeserializeSocketAddr(input))

StepBox == Step("box", DeserializeBox(input))

StepArray == Step("array", DeserializeArray(Cur, input))

(* if input.rem_len()? > 0 { return Err(InvalidData) } Ok(result) *)
TryFromSliceEnd ==
    /\ pc = "deserialize"
    /\ idx > Len(Components(ty))
    /\ out' = IF RemLen(input) > 0
              THEN Err("InvalidData", ERROR_NOT_ALL_BYTES_READ, input, 0)
              ELSE Ok(IF ty.k = "tuple" THEN vals ELSE vals[1], input, 0)
    /\ pc' = "done"
    /\ UNCHANGED <<v, ty, idx, input, prev, res, vals>>

Next ==
    \/ TryFromSliceBegin
    \/ StepU8
    \/ StepInt
    \/ StepFloat
    \/ StepBool
    \/ StepOption
    \/ StepString
    \/ StepVec
    \/ StepHashSet
    \/ StepHashMap
    \/ StepBTreeMap
    \/ StepSocketAddr
    \/ StepBox
    \/ StepArray
    \/ TryFromSliceEnd

Spec == Init /\ [][Next]_vars

(***************************************************************************)
(* What the last step was.                                                 *)
(***************************************************************************)
Stepped == res.ok \/ res.kind # "None"

LastTy == IF res.ok THEN Components(ty)[idx - 1] ELSE Components(ty)[idx]

Consumed == Len(prev) - Len(input)

(***************************************************************************)
(* Properties.                                                             *)
(***************************************************************************)

(* C1: try_from_slice returns Ok only when the decode succeeded and left   *)
(* remaining() = 0, and on the encoding of a value followed by one extra   *)
(* byte it fails with InvalidData, "Not all bytes read".                   *)
C1_TrailingByteInvalidData ==
    pc = "done" =>
        /\ out.ok => (res.ok /\ idx > Len(Components(ty)) /\ RemLen(input) = 0)
        /\ \A x \in Values(ty) :
              (Len(v) > 0 /\ SubSeq(v, 1, Len(v) - 1) = Encode(ty, x)) =>
                  /\ ~out.ok
                  /\ out.kind = "InvalidData"
                  /\ out.msg = ERROR_NOT_ALL_BYTES_READ

(* C2: try_from_slice on the encoding of a value v returns v, having       *)
(* consumed the whole encoding.                                            *)
C2_RoundTrip ==
    pc = "done" =>
        \A x \in Values(ty) :
            v = Encode(ty, x) => (out.ok /\ out.val = x /\ input = <<>>)

(* C3: String decode reads the 4-byte length len and then exactly len      *)
(* bytes: UnexpectedEof when fewer remain, else 4 + len bytes consumed and *)
(* those bytes returned, or InvalidData when they are not UTF-8.           *)
C3_StringReadsDeclaredLength ==
    (Stepped /\ LastTy.k = "string" /\ Len(prev) >= 4) =>
        LET big == prev[3] # 0 \/ prev[4] # 0
            len == prev[1] + 256 * prev[2]
            rem == Len(prev) - 4
        IN  IF big \/ len > rem
            THEN ~res.ok /\ res.kind = "UnexpectedEof"
            ELSE /\ Consumed = 4 + len
                 /\ IF IsUtf8(SubSeq(prev, 5, 4 + len))
                    THEN res.ok /\ res.val = SubSeq(prev, 5, 4 + len)
                    ELSE ~res.ok /\ res.kind = "InvalidData"

(* C4: Box<[u8]> decode: a declared length above the bytes remaining fails *)
(* with InvalidInput, nothing allocated and no payload byte read;          *)
(* otherwise exactly len bytes are returned in order and the source has    *)
(* advanced by 4 + len.                                                    *)
C4_BoxLengthGuard ==
    (Stepped /\ LastTy.k = "box" /\ Len(prev) >= 4) =>
        LET big == prev[3] # 0 \/ prev[4] # 0
            len == prev[1] + 256 * prev[2]
            rem == Len(prev) - 4
        IN  IF big \/ len > rem
            THEN /\ ~res.ok
                 /\ res.kind = "InvalidInput"
                 /\ res.cap = 0
                 /\ input = SubSeq(prev, 5, Len(prev))
            ELSE /\ res.ok
                 /\ res.val = SubSeq(prev, 5, 4 + len)
                 /\ input = SubSeq(prev, 5 + len, Len(prev))
                 /\ Consumed = 4 + len

C4_Witness ==
    /\ Stepped
    /\ LastTy.k = "box"
    /\ prev = <<2, 0, 0, 0, 1>>
    /\ ~res.ok
    /\ res.kind = "InvalidInput"

(* the fewest bytes an element of type t takes on the wire *)
RECURSIVE MinWire(_)
MinWire(t) ==
    CASE t.k \in {"u8", "bool", "option"} -> 1
      [] t.k \in {"int", "float"} -> t.w
      [] t.k \in {"string", "box", "vec"} -> 4
      [] t.k = "array" -> t.n * MinWire(t.t)

(* size_of::<T>() of the element types decoded here, as the 64-bit build   *)
(* lays them out: u8 1, u16 2, f32 4, [u8; 0] 0, Option<u16> 4,            *)
(* Box<[u8]> 16, String 24                                                 *)
ElementSize(t) ==
    CASE t.k = "u8" -> 1
      [] t.k = "int" -> t.w
      [] t.k = "float" -> t.w
      [] t.k = "array" -> 0
      [] t.k = "option" -> 4
      [] t.k = "box" -> 16
      [] t.k = "string" -> 24

(* C5 as stated: Vec<T> decode with declared length len returns exactly    *)
(* len elements or fails; it fails with UnexpectedEof whenever the len     *)
(* elements need more bytes than remain; the capacity reserved is          *)
(* min(len, remaining / size_of(T)), 0 when size_of(T) is 0.               *)
C5_VecEofOnShortInput ==
    (Stepped /\ LastTy.k = "vec" /\ Len(prev) >= 4) =>
        LET big == prev[3] # 0 \/ prev[4] # 0
            len == prev[1] + 256 * prev[2]
            rem == Len(prev) - 4
            size == ElementSize(LastTy.t)
            short == IF big THEN MinWire(LastTy.t) > 0
                     ELSE len * MinWire(LastTy.t) > rem
        IN  /\ res.ok =>
                  IF "repeat" \in DOMAIN res
                  THEN /\ res.val.prefix = <<>>
                       /\ res.val.len = <<prev[3] + 256 * prev[4], len>>
                  ELSE ~big /\ Len(res.val) = len
            /\ short => (~res.ok /\ res.kind = "UnexpectedEof")
            /\ res.cap = IF size = 0 THEN 0
                         ELSE IF big \/ len > rem \div size THEN rem \div size
                         ELSE len
            /\ res.cap * size <= rem

(* well-formed UTF-8, by the table of byte sequences of the standard *)
RECURSIVE WellFormedUtf8(_)
WellFormedUtf8(s) ==
    IF s = <<>> THEN TRUE
    ELSE LET b == s[1]
             n == Len(s)
         IN  IF b < 128 THEN WellFormedUtf8(Tail(s))
             ELSE IF b \in 194..223
             THEN n >= 2 /\ IsCont(s[2]) /\ WellFormedUtf8(SubSeq(s, 3, n))
             ELSE IF b \in 224..239
             THEN /\ n >= 3
                  /\ IF b = 224 THEN s[2] \in 160..191
                     ELSE IF b = 237 THEN s[2] \in 128..159
                     ELSE IsCont(s[2])
                  /\ IsCont(s[3])
                  /\ WellFormedUtf8(SubSeq(s, 4, n))
             ELSE IF b \in 240..244
             THEN /\ n >= 4
                  /\ IF b = 240 THEN s[2] \in 144..191
                     ELSE IF b = 244 THEN s[2] \in 128..143
                     ELSE IsCont(s[2])
                  /\ IsCont(s[3])
                  /\ IsCont(s[4])
                  /\ WellFormedUtf8(SubSeq(s, 5, n))
             ELSE FALSE

(* a float of width 4 or 8 whose little-endian bytes start after pos bytes *)
(* of buf is a NaN: exponent bits all set, mantissa not zero               *)
NanAt(w, buf, pos) ==
    IF w = 4
    THEN /\ buf[pos + 4] % 128 = 127
         /\ buf[pos + 3] >= 128
         /\ (buf[pos + 3] % 128 # 0 \/ buf[pos + 2] # 0 \/ buf[pos + 1] # 0)
    ELSE /\ buf[pos + 8] % 128 = 127
         /\ buf[pos + 7] >= 240
         /\ (buf[pos + 7] % 16 # 0 \/ \E i \in 1..6 : buf[pos + i] # 0)

(* What one element of type t makes of the bytes of buf after the first    *)
(* pos: the error kind it fails with, or "Ok" and the offset where it      *)
(* ends.  Fixed-width integers and floats need their w bytes, Box<[u8]>    *)
(* and String their 4-byte length field, an Option its flag and then the   *)
(* payload when the flag is not 0: UnexpectedEof when the input ends       *)
(* inside these.  A Box<[u8]> whose length exceeds what remains and a NaN  *)
(* are InvalidInput.  A String takes min(remaining / 24, length) payload   *)
(* bytes and is InvalidData when they are not UTF-8.                       *)
RECURSIVE ElementAt(_, _, _)
ElementAt(t, buf, pos) ==
    LET avail == Len(buf) - pos
        Fail(kind) == [kind |-> kind, next |-> pos]
        Done(n) == [kind |-> "Ok", next |-> pos + n]
        big == buf[pos + 3] # 0 \/ buf[pos + 4] # 0
        l == buf[pos + 1] + 256 * buf[pos + 2]
    IN  CASE t.k = "u8" -> IF avail < 1 THEN Fail("UnexpectedEof") ELSE Done(1)
          [] t.k = "int" -> IF avail < t.w THEN Fail("UnexpectedEof") ELSE Done(t.w)
          [] t.k = "float" ->
                IF avail < t.w THEN Fail("UnexpectedEof")
                ELSE IF NanAt(t.w, buf, pos) THEN Fail("InvalidInput")
                ELSE Done(t.w)
          [] t.k = "array" -> IF avail < t.n THEN Fail("UnexpectedEof") ELSE Done(t.n)
          [] t.k = "option" ->
                IF avail < 1 THEN Fail("UnexpectedEof")
                ELSE IF buf[pos + 1] = 0 THEN Done(1)
                ELSE ElementAt(t.t, buf, pos + 1)
          [] t.k = "box" ->
                IF avail < 4 THEN Fail("UnexpectedEof")
                ELSE IF big \/ l > avail - 4 THEN Fail("InvalidInput")
                ELSE Done(4 + l)
          [] t.k = "string" ->
                IF avail < 4 THEN Fail("UnexpectedEof")
                ELSE LET c == IF big \/ l > (avail - 4) \div 24
                              THEN (avail - 4) \div 24 ELSE l
                     IN  IF WellFormedUtf8(SubSeq(buf, pos + 5, pos + 4 + c))
                         THEN Done(4 + c)
                         ELSE Fail("InvalidData")

(* n elements of type t in wire order from offset pos, each starting where *)
(* the one before it ended, up to the first that fails: the offsets at     *)
(* which the elements start, and the kind and end of the last one          *)
RECURSIVE ElementsFrom(_, _, _, _, _)
ElementsFrom(t, buf, pos, n, starts) ==
    IF n = 0 THEN [kind |-> "Ok", next |-> pos, starts |-> starts]
    ELSE LET e == ElementAt(t, buf, pos)
         IN  IF e.kind = "Ok"
             THEN ElementsFrom(t, buf, e.next, n - 1, Append(starts, pos))
             ELSE [kind |-> e.kind, next |-> pos, starts |-> Append(starts, pos)]

(* C5 amended: Vec<T> decode with declared length len decodes T len times  *)
(* in wire order, each element starting where the one before it ended, and *)
(* returns exactly those len values, having consumed the length field and  *)
(* what the elements took; when an element fails the decode fails with     *)
(* that element's error, kind and message.  So it fails with UnexpectedEof *)
(* exactly when the first failing element finds the input ended inside its *)
(* fixed part (the w bytes of an integer or float, the length field of a   *)
(* Box<[u8]> or String, the flag or payload of an Option), with            *)
(* InvalidInput when it is a Box<[u8]> longer than what remains or a NaN,  *)
(* and with InvalidData when it is a String that is not UTF-8.  A String   *)
(* element takes only min(remaining / 24, length) payload bytes (the       *)
(* defect of C3), so a Vec<String> can succeed on less input than its      *)
(* strings declare.  When T has zero width the decode succeeds for every   *)
(* len and consumes the length field only.  The capacity reserved is       *)
(* min(len, remaining / size_of(T)), 0 when size_of(T) is 0, so never more *)
(* memory than the remaining input.                                        *)
C5_VecAmended ==
    (Stepped /\ LastTy.k = "vec" /\ Len(prev) >= 4) =>
        LET big == prev[3] # 0 \/ prev[4] # 0
            len == prev[1] + 256 * prev[2]
            rem == Len(prev) - 4
            t == LastTy.t
            size == ElementSize(t)
            n == IF big \/ len > rem THEN rem + 1 ELSE len
            walk == ElementsFrom(t, prev, 4, n, <<>>)
            At(p) == Deserialize(t, SubSeq(prev, p + 1, Len(prev)))
            failed == At(walk.next)
        IN  /\ IF size = 0
               THEN /\ res.ok
                    /\ Consumed = 4
                    /\ IF "repeat" \in DOMAIN res
                       THEN /\ res.val.prefix = <<>>
                            /\ res.val.elem = <<>>
                            /\ res.val.len = <<prev[3] + 256 * prev[4], len>>
                       ELSE /\ ~big
                            /\ Len(res.val) = len
                            /\ \A i \in 1..len : res.val[i] = <<>>
               ELSE IF walk.kind = "Ok"
               THEN /\ res.ok
                    /\ ~big
                    /\ Len(res.val) = len
                    /\ Consumed = walk.next
                    /\ \A i \in 1..len :
                          /\ At(walk.starts[i]).ok
                          /\ res.val[i] = At(walk.starts[i]).val
               ELSE /\ ~res.ok
                    /\ res.kind = walk.kind
                    /\ ~failed.ok
                    /\ res.kind = failed.kind
                    /\ res.msg = failed.msg
            /\ t.k \in {"u8", "int"} =>
                  IF big \/ len * size > rem
                  THEN ~res.ok /\ res.kind = "UnexpectedEof"
                  ELSE /\ res.ok
                       /\ Consumed = 4 + len * size
                       /\ \A i \in 1..len :
                            res.val[i] =
                               IF size = 1 THEN prev[4 + i]
                               ELSE prev[3 + 2 * i] + 256 * prev[4 + 2 * i]
            /\ res.cap = IF size = 0 THEN 0
                         ELSE IF big \/ len > rem \div size THEN rem \div size
                         ELSE len
            /\ res.cap * size <= rem

C5_Witness ==
    /\ Stepped
    /\ LastTy = Vec(U16)
    /\ prev = <<255, 255, 255, 255, 1, 0, 255>>
    /\ ~res.ok
    /\ res.kind = "UnexpectedEof"
    /\ res.cap = 1

(* C6: float decode fails with InvalidInput on every bit pattern with all  *)
(* exponent bits set and a nonzero mantissa, returns every other bit       *)
(* pattern unchanged, and fails with UnexpectedEof on fewer bytes than the *)
(* width.                                                                  *)
C6_FloatNaNRejected ==
    (Stepped /\ LastTy.k = "float") =>
        LET w == LastTy.w
            b == prev
            nan == IF w = 4
                   THEN /\ b[4] % 128 = 127
                        /\ b[3] >= 128
                        /\ (b[3] % 128 # 0 \/ b[2] # 0 \/ b[1] # 0)
                   ELSE /\ b[8] % 128 = 127
                        /\ b[7] >= 240
                        /\ (b[7] % 16 # 0 \/ \E i \in 1..6 : b[i] # 0)
        IN  IF Len(prev) < w
            THEN ~res.ok /\ res.kind = "UnexpectedEof"
            ELSE IF nan
            THEN ~res.ok /\ res.kind = "InvalidInput"
            ELSE /\ res.ok
                 /\ ToLeBytes(res.val.bits, w) = SubSeq(prev, 1, w)
                 /\ Consumed = w

C6_Witness ==
    /\ Stepped
    /\ LastTy = F32
    /\ prev = <<0, 0, 192, 127>>
    /\ ~res.ok
    /\ res.kind = "InvalidInput"

(* C7: Option decode: flag 0 yields absent and consumes exactly one byte;  *)
(* any nonzero flag yields present(x), x the inner type decoded from the   *)
(* bytes right after the flag; an inner failure fails the decode with the  *)
(* inner error.                                                            *)
C7_OptionFlag ==
    (Stepped /\ LastTy.k = "option" /\ Len(prev) >= 1) =>
        IF prev[1] = 0
        THEN res.ok /\ res.val = [some |-> FALSE] /\ input = Tail(prev)
        ELSE LET x == Deserialize(LastTy.t, Tail(prev))
             IN  /\ IF x.ok
                    THEN /\ res.ok
                         /\ res.val = [some |-> TRUE, val |-> x.val]
                         /\ input = x.rest
                    ELSE ~res.ok /\ res.kind = x.kind /\ res.msg = x.msg
                 /\ (LastTy.t = U8 /\ Len(prev) >= 2) =>
                        (res.ok /\ res.val.val = prev[2] /\ Consumed = 2)
                 /\ (LastTy.t = U16 /\ Len(prev) < 3) =>
                        (~res.ok /\ res.kind = "UnexpectedEof")

C7_Witness ==
    /\ Stepped
    /\ LastTy = Opt(U8)
    /\ prev = <<1, 42>>
    /\ res.ok
    /\ res.val = [some |-> TRUE, val |-> 42]

(* C8: SocketAddr decode: discriminant 0 is an IPv4 address of 4 bytes and *)
(* a little-endian port (7 bytes), 1 an IPv6 address of 16 bytes and a     *)
(* little-endian port with flow-info and scope-id 0 (19 bytes), any other  *)
(* discriminant fails with InvalidInput naming it, one byte consumed.      *)
C8_SocketAddrDiscriminant ==
    (Stepped /\ LastTy.k = "socketaddr" /\ Len(prev) >= 1) =>
        LET d == prev[1]
        IN  IF d = 0
            THEN IF Len(prev) >= 7
                 THEN /\ res.ok
                      /\ res.val = [V4 |-> [ip |-> SubSeq(prev, 2, 5),
                                            port |-> prev[6] + 256 * prev[7]]]
                      /\ Consumed = 7
                 ELSE ~res.ok /\ res.kind = "UnexpectedEof"
            ELSE IF d = 1
            THEN IF Len(prev) >= 19
                 THEN /\ res.ok
                      /\ res.val =
                            [V6 |-> [ip |-> [i \in 1..8 |->
                                               256 * prev[2 * i] + prev[2 * i + 1]],
                                     port |-> prev[18] + 256 * prev[19],
                                     flowinfo |-> 0, scope_id |-> 0]]
                      /\ Consumed = 19
                 ELSE ~res.ok /\ res.kind = "UnexpectedEof"
            ELSE /\ ~res.ok
                 /\ res.kind = "InvalidInput"
                 /\ res.msg = <<"Invalid SocketAddr variant: ", d>>
                 /\ Consumed = 1

C8_Witness ==
    /\ Stepped
    /\ LastTy = SocketAddr
    /\ prev = <<2>>
    /\ ~res.ok
    /\ res.kind = "InvalidInput"
    /\ res.msg = <<"Invalid SocketAddr variant: ", 2>>

(* C9: map decode with declared count n decodes n (key, value) pairs in    *)
(* wire order; each distinct key holds the value of its last occurrence,   *)
(* so the map has at most n entries; a failing key or value fails the      *)
(* decode with that error.                                                 *)
C9_MapLastValueWins ==
    (Stepped /\ LastTy.k \in {"hashmap", "btreemap"} /\ Len(prev) >= 4) =>
        LET big == prev[3] # 0 \/ prev[4] # 0
            n == prev[1] + 256 * prev[2]
            rem == Len(prev) - 4
            w == LastTy.vt.w
            e == IF LastTy.vt.k = "u8" THEN 2 ELSE 1 + w
            key(j) == prev[4 + (j - 1) * e + 1]
            byte(j, i) == prev[4 + (j - 1) * e + 1 + i]
            last(j) == CHOOSE m \in j..n :
                           key(m) = key(j) /\ \A q \in (m + 1)..n : key(q) # key(j)
        IN  IF LastTy.vt.k = "array"
            THEN /\ res.ok
                 /\ Consumed = 4
                 /\ DOMAIN res.val = IF big \/ n >= 1 THEN {<<>>} ELSE {}
                 /\ (big \/ n >= 1) => res.val[<<>>] = <<>>
            ELSE IF LastTy.vt.k \in {"u8", "int"}
            THEN IF big \/ n * e > rem
                 THEN ~res.ok /\ res.kind = "UnexpectedEof"
                 ELSE /\ res.ok
                      /\ Consumed = 4 + n * e
                      /\ DOMAIN res.val = {key(j) : j \in 1..n}
                      /\ Cardinality(DOMAIN res.val) <= n
                      /\ \A j \in 1..n :
                            res.val[key(j)] =
                               IF e = 2 THEN byte(last(j), 1)
                               ELSE byte(last(j), 1) + 256 * byte(last(j), 2)
            ELSE (n >= 1 /\ rem >= 5 /\ byte(1, 4) % 128 = 127 /\ byte(1, 3) > 128) =>
                    (~res.ok /\ res.kind = "InvalidInput")

C9_Witness ==
    /\ Stepped
    /\ LastTy = HashMap(U8, U8)
    /\ prev = <<2, 0, 0, 0, 1, 1, 1, 2>>
    /\ res.ok
    /\ DOMAIN res.val = {1}
    /\ res.val[1] = 2

(* C10: the unread input is always the tail of the buffer after the bytes  *)
(* consumed so far, and no step makes it longer; an integer decode of      *)
(* width N consumes exactly the next N bytes and returns them in           *)
(* little-endian order, or fails with UnexpectedEof when fewer remain.     *)
C10_CursorInvariant ==
    /\ pc # "call" =>
          /\ Len(input) <= Len(v)
          /\ input = SubSeq(v, Len(v) - Len(input) + 1, Len(v))
    /\ Stepped =>
          /\ Len(input) <= Len(prev)
          /\ input = SubSeq(prev, Consumed + 1, Len(prev))
    /\ (Stepped /\ LastTy.k \in {"u8", "int"}) =>
          LET w == SizeOf(LastTy)
          IN  IF Len(prev) >= w
              THEN /\ res.ok
                   /\ Consumed = w
                   /\ ToLeBytes(res.val, w) = SubSeq(prev, 1, w)
              ELSE ~res.ok /\ res.kind = "UnexpectedEof" /\ input = prev
    /\ (ty = Tuple(<<U8, U16>>) /\ pc # "call") =>
          Len(input) = Len(v) - (IF idx = 1 THEN 0 ELSE IF idx = 2 THEN 1 ELSE 3)

C10_Witness ==
    /\ ty = Tuple(<<U8, U16>>)
    /\ v = <<1, 2, 255, 0>>
    /\ idx = 3
    /\ res.ok
    /\ res.val = 65282
    /\ input = <<0>>

====
